---------------------------- MODULE Spec2Model ----------------------------
(***************************************************************************)
(* Model of roster_scraper.py: the text normaliser, the field parsers, the *)
(* three layout recognizers (Sidearm/Platform, generic, Virginia custom),  *)
(* the dispatcher scrape_roster and the team loop of main.                 *)
(*                                                                         *)
(* A text is a sequence of one-character strings.  Two elements stand for  *)
(* more than an ASCII character: "^2" is U+00B2 (SUPERSCRIPT TWO, for      *)
(* which str.isdigit() is true, \d does not match and int() raises), and   *)
(* "9x4301" is a run of 4301 digits '9' (int() of more than 4300 digits    *)
(* raises ValueError in CPython >= 3.11).                                  *)
(* An optional value (None or a value) is a sequence of length 0 or 1.     *)
(***************************************************************************)
EXTENDS Integers, Sequences, FiniteSets, TLC

None == <<>>
Some(v) == <<v>>

(*************************** characters and texts **************************)
UPPER == <<"A","B","C","D","E","F","G","H","I","J","K","L","M","N","O","P","Q","R","S","T","U","V","W","X","Y","Z">>
LOWER == <<"a","b","c","d","e","f","g","h","i","j","k","l","m","n","o","p","q","r","s","t","u","v","w","x","y","z">>
DIGITS == <<"0","1","2","3","4","5","6","7","8","9">>
LongRun == "9x4301"
Sup2 == "^2"

InSeq(c, s) == \E i \in 1..Len(s) : s[i] = c
IndexOf(c, s) == CHOOSE i \in 1..Len(s) : s[i] = c

\* re: \s, and the characters str.strip() and str.split() treat as whitespace
IsSpace(c) == c \in {" ", "\t", "\n"}
\* re: \d on a str pattern (a decimal digit, which int() accepts)
IsDecimal(c) == InSeq(c, DIGITS) \/ c = LongRun
\* str.isdigit() of one character
IsDigitChar(c) == IsDecimal(c) \/ c = Sup2
IsUpper(c) == InSeq(c, UPPER)
IsLower(c) == InSeq(c, LOWER)
\* the number of decimal digits an element of a text stands for
DigitCount(c) == IF c = LongRun THEN 4301 ELSE 1

ToUpperChar(c) == IF IsLower(c) THEN UPPER[IndexOf(c, LOWER)] ELSE c
ToLowerChar(c) == IF IsUpper(c) THEN LOWER[IndexOf(c, UPPER)] ELSE c
\* str.upper(), str.lower()
upper(t) == [i \in 1..Len(t) |-> ToUpperChar(t[i])]
lower(t) == [i \in 1..Len(t) |-> ToLowerChar(t[i])]

\* the operator <<"s","u","b"," ","i","n"," ","t">> of Python strings
Contains(sub, t) ==
  \E i \in 1..(Len(t) - Len(sub) + 1) : SubSeq(t, i, i + Len(sub) - 1) = sub

\* the length of the longest prefix of t, from index i, whose characters satisfy P
RECURSIVE RunLen(_, _, _)
RunLen(P(_), t, i) ==
  IF i <= Len(t) /\ P(t[i]) THEN 1 + RunLen(P, t, i + 1) ELSE 0

Drop(t, n) == SubSeq(t, n + 1, Len(t))
Take(t, n) == SubSeq(t, 1, IF n < Len(t) THEN n ELSE Len(t))

RECURSIVE TrailingSpaces(_)
TrailingSpaces(t) ==
  IF t # <<>> /\ IsSpace(t[Len(t)]) THEN 1 + TrailingSpaces(Take(t, Len(t) - 1)) ELSE 0

\* str.strip()
RStrip(t) == Take(t, Len(t) - TrailingSpaces(t))
strip(t) == RStrip(Drop(t, RunLen(IsSpace, t, 1)))

\* re.sub(r'\s+', ' ', t)
RECURSIVE CollapseSpaces(_)
CollapseSpaces(t) ==
  IF t = <<>> THEN <<>>
  ELSE IF IsSpace(t[1])
       THEN <<" ">> \o CollapseSpaces(Drop(t, RunLen(IsSpace, t, 1)))
       ELSE <<t[1]>> \o CollapseSpaces(Drop(t, 1))

clean_text(text) ==
  IF text = <<>> THEN <<>> ELSE CollapseSpaces(strip(text))

NotSpace(c) == ~IsSpace(c)

\* str.split() with no argument: the whitespace-delimited tokens
RECURSIVE split(_)
SplitAt(s, n) == IF s = <<>> THEN <<>> ELSE <<Take(s, n)>> \o split(Drop(s, n))
SplitFrom(s) == SplitAt(s, RunLen(NotSpace, s, 1))
split(t) == SplitFrom(Drop(t, RunLen(IsSpace, t, 1)))

\* ' '.join(parts)
RECURSIVE join(_)
join(parts) ==
  IF parts = <<>> THEN <<>>
  ELSE IF Len(parts) = 1 THEN parts[1]
       ELSE parts[1] \o <<" ">> \o join(Tail(parts))

\* int(t) for a text of characters for which str.isdigit() holds (or \d matches):
\* the value, or a ValueError
RECURSIVE DigitSum(_)
DigitSum(t) == IF t = <<>> THEN 0 ELSE DigitCount(t[1]) + DigitSum(Tail(t))
RECURSIVE DecimalValue(_)
DecimalValue(t) ==
  IF t = <<>> THEN 0
  ELSE 10 * DecimalValue(Take(t, Len(t) - 1)) + (IndexOf(t[Len(t)], DIGITS) - 1)
int(t) ==
  IF t = <<>> \/ (\E i \in 1..Len(t) : ~IsDecimal(t[i])) \/ DigitSum(t) > 4300
  THEN [raises |-> TRUE, value |-> 0]
  ELSE [raises |-> FALSE, value |-> DecimalValue(t)]

\* str.isdigit()
isdigit(t) == t # <<>> /\ \A i \in 1..Len(t) : IsDigitChar(t[i])

(****************************** field parsers ******************************)
\* Lines 36-46, on the cleaned, upper-cased text
PositionOf_DefBeforeMid(p) ==
  IF Contains(<<"G","O","A","L">>, p) \/ p = <<"G","K">> THEN <<<<"G","K">>, <<"G","K">>>>
  ELSE IF Contains(<<"F","O","R","W","A","R","D">>, p) \/ p \in {<<"F">>, <<"F","W">>, <<"S","T">>, <<"S","T","R","I","K","E","R">>} THEN <<<<"F","W","D">>, <<"S","T">>>>
  ELSE IF Contains(<<"D","E","F">>, p) \/ p \in {<<"D">>, <<"D","F">>, <<"B","A","C","K">>} THEN <<<<"D","E","F">>, <<"C","B">>>>
  ELSE IF Contains(<<"M","I","D">>, p) \/ p \in {<<"M">>, <<"M","F">>} THEN <<<<"M","I","D">>, <<"C","M">>>>
  ELSE <<<<"M","I","D">>, <<"C","M">>>>
PositionOf(p) ==
  IF Contains(<<"G","O","A","L">>, p) \/ p = <<"G","K">> THEN <<<<"G","K">>, <<"G","K">>>>
  ELSE IF Contains(<<"F","O","R","W","A","R","D">>, p) \/ p \in {<<"F">>, <<"F","W">>, <<"S","T">>, <<"S","T","R","I","K","E","R">>} THEN <<<<"F","W","D">>, <<"S","T">>>>
  ELSE IF Contains(<<"M","I","D">>, p) \/ p \in {<<"M">>, <<"M","F">>} THEN <<<<"M","I","D">>, <<"C","M">>>>
  ELSE IF Contains(<<"D","E","F">>, p) \/ p \in {<<"D">>, <<"D","F">>, <<"B","A","C","K">>} THEN <<<<"D","E","F">>, <<"C","B">>>>
  ELSE <<<<"M","I","D">>, <<"C","M">>>>

parse_position(pos_text) == PositionOf(upper(clean_text(pos_text)))

IsHeightSep(c) == c \in {"'", "-"} \/ IsSpace(c)

\* re.search(r"(\d+)['\-\s]*(\d+)", t) from index i on: the two groups, or None.
\* n is the length of the digits at i, k the index after the separators.
HeightGroups(t, i, n, k) ==
  IF k <= Len(t) /\ IsDecimal(t[k])
  THEN Some(<<SubSeq(t, i, i + n - 1), SubSeq(t, k, k + RunLen(IsDecimal, t, k) - 1)>>)
  ELSE IF n >= 2 THEN Some(<<SubSeq(t, i, i + n - 2), <<t[i + n - 1]>> >>) ELSE None
HeightAt(t, i, n) == HeightGroups(t, i, n, i + n + RunLen(IsHeightSep, t, i + n))
RECURSIVE HeightSearch(_, _)
HeightNext(t, i, m) == IF m # None THEN m ELSE HeightSearch(t, i + 1)
HeightSearch(t, i) ==
  IF i > Len(t) THEN None
  ELSE IF ~IsDecimal(t[i]) THEN HeightSearch(t, i + 1)
  ELSE HeightNext(t, i, HeightAt(t, i, RunLen(IsDecimal, t, i)))

\* Lines 55-57
HeightOf(m) == IF m # None THEN Some(m[1][1] \o <<"-">> \o m[1][2]) ELSE None
parse_height(height_text) ==
  IF height_text = <<>> THEN None ELSE HeightOf(HeightSearch(clean_text(height_text), 1))

\* Lines 64-72, on the cleaned, upper-cased text
ClassYearOf(y) ==
  IF Contains(<<"F","R">>, y) \/ Contains(<<"F","R","E","S","H","M","A","N">>, y) THEN Some(<<"F","r">>)
  ELSE IF Contains(<<"S","O">>, y) \/ Contains(<<"S","O","P","H","O","M","O","R","E">>, y) THEN Some(<<"S","o">>)
  ELSE IF Contains(<<"J","R">>, y) \/ Contains(<<"J","U","N","I","O","R">>, y) THEN Some(<<"J","r">>)
  ELSE IF Contains(<<"S","R">>, y) \/ Contains(<<"S","E","N","I","O","R">>, y) THEN Some(<<"S","r">>)
  ELSE IF Len(y) >= 2 THEN Some(Take(y, 2)) ELSE None
parse_class_year(year_text) ==
  IF year_text = <<>> THEN None ELSE ClassYearOf(upper(clean_text(year_text)))

(********************************** documents ******************************)
\* A parsed document is a tree of nodes.  A text node has tag "#text" and its
\* characters in text; an element has a tag, its class and id attributes (the
\* empty text when absent) and its children in document order.
Txt(t) == [tag |-> "#text", class |-> <<>>, id |-> <<>>, text |-> t, kids |-> <<>>]
El(tag, class, id, kids) ==
  [tag |-> tag, class |-> class, id |-> id, text |-> <<>>, kids |-> kids]
Leaf(tag, class, t) == El(tag, class, <<>>, <<Txt(t)>>)
Soup(kids) == El("[document]", <<>>, <<>>, kids)

\* the descendants of a node, in document order
RECURSIVE Descendants(_)
RECURSIVE DescendantsOfAll(_)
Descendants(n) == DescendantsOfAll(n.kids)
DescendantsOfAll(ks) ==
  IF ks = <<>> THEN <<>>
  ELSE <<ks[1]>> \o Descendants(ks[1]) \o DescendantsOfAll(Tail(ks))

\* Tag.get_text(): the text nodes below a node, concatenated
RECURSIVE ConcatTexts(_)
ConcatTexts(ns) ==
  IF ns = <<>> THEN <<>>
  ELSE (IF ns[1].tag = "#text" THEN ns[1].text ELSE <<>>) \o ConcatTexts(Tail(ns))
get_text(n) == ConcatTexts(Descendants(n))

\* re.compile(p1|p2|..., re.I).search(attr), for lower-case literals p1, p2, ...
SearchI(patterns, attr) == \E p \in patterns : Contains(p, lower(attr))

\* find_all(tags), find_all(tags, class_=re), find_all(class_=re), find_all(tags, id=re)
FindAllTag(n, tags) ==
  LET Hit(e) == e.tag \in tags IN SelectSeq(Descendants(n), Hit)
FindAllTagClass(n, tags, patterns) ==
  LET Hit(e) == e.tag \in tags /\ SearchI(patterns, e.class)
  IN  SelectSeq(Descendants(n), Hit)
FindAllClass(n, patterns) ==
  LET Hit(e) == e.tag # "#text" /\ SearchI(patterns, e.class)
  IN  SelectSeq(Descendants(n), Hit)
FindAllTagId(n, tags, patterns) ==
  LET Hit(e) == e.tag \in tags /\ SearchI(patterns, e.id)
  IN  SelectSeq(Descendants(n), Hit)
\* find(...): the first hit, or None
First(hits) == IF hits = <<>> THEN None ELSE Some(hits[1])
\* Python's <<"a"," ","o","r"," ","b">> on optional elements
OrElse(a, b) == IF a # None THEN a ELSE b

(******************************** entries **********************************)
\* str(n) of a non-negative int
RECURSIVE IntStr(_)
IntStr(n) == IF n < 10 THEN <<DIGITS[n + 1]>> ELSE IntStr(n \div 10) \o <<DIGITS[(n % 10) + 1]>>
\* the text an f-string gives an optional int
FormatJersey(jersey) == IF jersey = None THEN <<"N","o","n","e">> ELSE IntStr(jersey[1])

\* The dict of one player; ps is parse_position(position)
PlayerWith(ps, jersey, first_name, last_name, height, year, hometown) ==
  [jersey |-> jersey, firstName |-> first_name, lastName |-> last_name,
   position |-> ps[1], subPosition |-> ps[2],
   height |-> height, year |-> year, hometown |-> hometown]
Player(jersey, first_name, last_name, position, height, year, hometown) ==
  PlayerWith(parse_position(position), jersey, first_name, last_name, height, year, hometown)

\* ' '.join(name_parts[1:])
LastName_FromThird(name_parts) == join(SubSeq(name_parts, 3, Len(name_parts)))
LastName(name_parts) == join(Tail(name_parts))

\* What the loop body did with one candidate record: appended an entry ("entry"),
\* left the record out ("skip": continue), or raised ("error"); src keeps the
\* texts the body read from the record.
Outcome(kind, player, src) == [kind |-> kind, player |-> player, src |-> src]

\* the roster the loop has built: the entries of its outcomes, in order
RECURSIVE RosterOf(_)
RosterOf(outcomes) ==
  IF outcomes = <<>> THEN <<>>
  ELSE (IF outcomes[1].kind = "entry" THEN outcomes[1].player ELSE <<>>)
       \o RosterOf(Tail(outcomes))

\* re.search(r'\d+', t): the first maximal run of decimal digits, or None
RECURSIVE FirstDigits(_)
FirstDigits(t) ==
  IF t = <<>> THEN None
  ELSE IF IsDecimal(t[1]) THEN Some(Take(t, RunLen(IsDecimal, t, 1)))
       ELSE FirstDigits(Tail(t))

\* re.search(r'^\s*(\d+)\s*$', t): group 1, or None
AllDecimalOrNone(s) ==
  IF s # <<>> /\ \A k \in 1..Len(s) : IsDecimal(s[k]) THEN Some(s) ELSE None
JerseyCellMatch(t) == AllDecimalOrNone(strip(t))

\* re.search(r'^(\d+)\s+(.+)$', name) on a cleaned name: <<group 1, group 2>>, or
\* None.  n is the length of the leading digits, w of the whitespace after them.
NameGroups(name, n, w) ==
  IF n >= 1 /\ w >= 1 /\ Drop(name, n + w) # <<>> /\ ~InSeq("\n", Drop(name, n + w))
  THEN Some(<<Take(name, n), Drop(name, n + w)>>) ELSE None
NameDigits(name, n) == NameGroups(name, n, RunLen(IsSpace, name, n + 1))
NameMatch(name) == NameDigits(name, RunLen(IsDecimal, name, 1))

\* re.sub(r'^\d+\s+', '', name)
StripRun(name, n, w) == IF n >= 1 /\ w >= 1 THEN Drop(name, n + w) ELSE name
StripDigits(name, n) == StripRun(name, n, RunLen(IsSpace, name, n + 1))
StripLeadingNumber(name) == StripDigits(name, RunLen(IsDecimal, name, 1))

\* <<"x",".","g","e","t","_","t","e","x","t","(",")"," ","i","f"," ","x"," ","e","l","s","e"," ","d","e","f","a","u","l","t">>, for an optional element x
TextOr(el, default) == IF el # None THEN get_text(el[1]) ELSE default

\* <<"j","e","r","s","e","y"," ","="," ","i","n","t","(",".",".",".",")">>, where n is what int gave: the jersey is set, or the
\* ValueError leaves the body of the loop
SetJersey(f, n) ==
  IF n.raises THEN [f EXCEPT !.status = "error"] ELSE [f EXCEPT !.jersey = Some(n.value)]

(************************ scrape_sidearm_roster ****************************)
\* Lines 117-122: the fields read from the cells of a row.  status is "ok",
\* "skip" (continue) or "error" (an exception raised in the row); src_name and
\* jersey_text keep the texts of the name and the number as read.
CellsRecordNamed(cells, name) ==
  [status |-> "ok", path |-> "cells",
   jersey_text |-> clean_text(get_text(cells[1])), src_name |-> name,
   jersey |-> None, name |-> name,
   position |-> IF Len(cells) > 2 THEN clean_text(get_text(cells[3])) ELSE <<>>,
   height |-> IF Len(cells) > 3 THEN parse_height(get_text(cells[4])) ELSE None,
   year |-> IF Len(cells) > 4 THEN parse_class_year(get_text(cells[5])) ELSE None,
   hometown |-> IF Len(cells) > 5 THEN Some(clean_text(get_text(cells[6]))) ELSE None]
CellsRecord(cells) == CellsRecordNamed(cells, clean_text(get_text(cells[2])))

\* Lines 125-133: the jersey of a row of cells
CellsJerseyOf(f, jersey_match, name_match) ==
  IF jersey_match # None THEN SetJersey(f, int(jersey_match[1]))
  ELSE IF name_match # None
       THEN SetJersey([f EXCEPT !.name = name_match[1][2]], int(name_match[1][1]))
       ELSE f
CellsJersey(f) == CellsJerseyOf(f, JerseyCellMatch(f.jersey_text), NameMatch(f.name))

\* Lines 136-151: the fields read from the sub-elements of a row without cells
AttrsRecordOf(jersey_el, name_el, pos_el, height_el, year_el, hometown_el) ==
  [status |-> IF name_el = None THEN "skip" ELSE "ok", path |-> "attrs",
   jersey_text |-> clean_text(TextOr(jersey_el, <<>>)),
   src_name |-> clean_text(TextOr(name_el, <<>>)),
   jersey |-> None, name |-> clean_text(TextOr(name_el, <<>>)),
   position |-> clean_text(TextOr(pos_el, <<>>)),
   height |-> IF height_el # None THEN parse_height(get_text(height_el[1])) ELSE None,
   year |-> IF year_el # None THEN parse_class_year(get_text(year_el[1])) ELSE None,
   hometown |-> IF hometown_el # None THEN Some(clean_text(get_text(hometown_el[1]))) ELSE None]
AttrsRecord(row) ==
  AttrsRecordOf(First(FindAllClass(row, {<<"n","u","m","b","e","r">>, <<"j","e","r","s","e","y">>})),
                First(FindAllClass(row, {<<"n","a","m","e">>})),
                First(FindAllClass(row, {<<"p","o","s","i","t","i","o","n">>, <<"p","o","s">>})),
                First(FindAllClass(row, {<<"h","e","i","g","h","t">>, <<"h","t">>})),
                First(FindAllClass(row, {<<"y","e","a","r">>, <<"c","l","a","s","s">>})),
                First(FindAllClass(row, {<<"h","o","m","e","t","o","w","n">>, <<"h","o","m","e">>})))

\* Lines 153-155: the jersey of a row without cells
AttrsJerseyOf(f, jersey_match) ==
  IF jersey_match # None THEN SetJersey(f, int(jersey_match[1])) ELSE f
AttrsJersey(f) == IF f.status = "skip" THEN f ELSE AttrsJerseyOf(f, FirstDigits(f.jersey_text))

\* Lines 107-156: the fields of one row, before the name checks
SidearmFieldsOf(row, cells) ==
  IF Len(cells) >= 2 THEN CellsJersey(CellsRecord(cells)) ELSE AttrsJersey(AttrsRecord(row))
SidearmFields(row) == SidearmFieldsOf(row, FindAllTag(row, {"td"}))

\* Line 164: the deduplication key of a row
SidearmKey(name, jersey, position) ==
  name \o <<"_">> \o FormatJersey(jersey) \o <<"_">> \o position

\* Lines 165-194: the row is a duplicate, has no name part, or gives an entry
SidearmKeyed(f, player_key, name_parts, seen_players) ==
  IF player_key \in seen_players
  THEN [outcome |-> Outcome("skip", None, f), seen |-> seen_players]
  ELSE [outcome |-> IF name_parts = <<>> THEN Outcome("skip", None, f)
                    ELSE Outcome("entry",
                                 Some(Player(f.jersey, name_parts[1], LastName(name_parts),
                                             f.position, f.height, f.year, f.hometown)),
                                 f),
        seen |-> seen_players \cup {player_key}]

\* Lines 161-170, with the name after <<"r","e",".","s","u","b","(","r","'","^","\d","+","\s","+","'",","," ","'","'",","," ","n","a","m","e",")">>
SidearmNamed(f, name, seen_players) ==
  SidearmKeyed(f, SidearmKey(name, f.jersey, f.position), split(name), seen_players)

\* Lines 104-198: the body of the loop for a row with fields f: its outcome and
\* seen_players after it.  An exception raised in the row is caught in the row
\* (lines 196-198).
SidearmRow(f, seen_players) ==
  IF f.status = "error" THEN [outcome |-> Outcome("error", None, f), seen |-> seen_players]
  ELSE IF f.status = "skip" \/ f.name = <<>> \/ strip(f.name) = <<>>
       THEN [outcome |-> Outcome("skip", None, f), seen |-> seen_players]
       ELSE SidearmNamed(f, StripLeadingNumber(f.name), seen_players)

\* Lines 103-198: the loop over the rows; each row's outcome, in order
RECURSIVE SidearmLoop(_, _)
SidearmCons(r, rest) == <<r.outcome>> \o SidearmLoop(rest, r.seen)
SidearmLoop(rows, seen_players) ==
  IF rows = <<>> THEN <<>>
  ELSE SidearmCons(SidearmRow(SidearmFields(rows[1]), seen_players), Tail(rows))

\* Lines 89-91: the roster container, or None
SidearmContainer(soup) ==
  OrElse(First(FindAllTagClass(soup, {"table"}, {<<"r","o","s","t","e","r">>})),
         OrElse(First(FindAllTagClass(soup, {"div"}, {<<"r","o","s","t","e","r">>})),
                First(FindAllTagId(soup, {"table"}, {<<"r","o","s","t","e","r">>}))))

\* Lines 98-101: the candidate rows; trs is table.find_all('tr')
SidearmRowsOf(soup, trs) ==
  IF trs = <<>> \/ Tail(trs) = <<>>
  THEN FindAllTagClass(soup, {"div"}, {<<"r","o","s","t","e","r","-","p","l","a","y","e","r">>, <<"p","l","a","y","e","r","-","c","a","r","d">>})
  ELSE Tail(trs)
SidearmRows(soup, table) == SidearmRowsOf(soup, FindAllTag(table, {"tr"}))

\* Lines 93-198: the outcomes of the rows of the document (none without a container)
SidearmIn(soup, table) ==
  IF table = None THEN <<>> ELSE SidearmLoop(SidearmRows(soup, table[1]), {})
SidearmOutcomes(soup) == SidearmIn(soup, SidearmContainer(soup))

\* Line 200: roster if roster else None
NonEmptyOrNone(roster) == IF roster # <<>> THEN Some(roster) ELSE None

\* Python's truth value of an optional list (<<"i","f"," ","r","o","s","t","e","r">>)
Truthy(roster) == roster # None /\ roster[1] # <<>>

\* How a call ends: it returns a value, or an exception propagates out of it.
Returned(v) == [raised |-> FALSE, value |-> v]
Raised == [raised |-> TRUE, value |-> None]

\* Lines 80-200: the try block.  fetched is FALSE when requests.get or
\* raise_for_status raises; outcomes are those of the rows of the parsed response.
SidearmBody(fetched, outcomes) ==
  IF ~fetched THEN Raised ELSE Returned(NonEmptyOrNone(RosterOf(outcomes)))

\* Lines 202-207: <<"e","x","c","e","p","t"," ","r","e","q","u","e","s","t","s",".","R","e","q","u","e","s","t","E","x","c","e","p","t","i","o","n">> and <<"e","x","c","e","p","t"," ","E","x","c","e","p","t","i","o","n">>
SidearmCatch(body) == IF body.raised THEN Returned(None) ELSE body

SidearmCall(fetched, outcomes) == SidearmCatch(SidearmBody(fetched, outcomes))
scrape_sidearm_roster(fetched, soup) == SidearmCall(fetched, SidearmOutcomes(soup))

(************************* scrape_generic_roster ***************************)
\* re.search(r'[A-Z][a-z]+\s+[A-Z][a-z]+', t): a match starts at index i, with l
\* lower-case letters after it, then w whitespace characters, then index k
PlausibleTail(t, k) == k + 1 <= Len(t) /\ IsUpper(t[k]) /\ IsLower(t[k + 1])
PlausibleSpaces(t, i, l, w) == l >= 1 /\ w >= 1 /\ PlausibleTail(t, i + 1 + l + w)
PlausibleWord(t, i, l) == PlausibleSpaces(t, i, l, RunLen(IsSpace, t, i + 1 + l))
PlausibleName(t) ==
  \E i \in 1..Len(t) : IsUpper(t[i]) /\ PlausibleWord(t, i, RunLen(IsLower, t, i + 1))

\* Line 230: the cleaned texts of the cells
CellTexts(cells) == [k \in 1..Len(cells) |-> clean_text(get_text(cells[k]))]

\* Line 256: the cell names a position
LooksLikePosition(cell_text) ==
  \E pos \in {<<"G","K">>, <<"G","O","A","L">>, <<"F","O","R","W","A","R","D">>, <<"M","I","D">>, <<"D","E","F">>, <<"F">>, <<"M">>, <<"D">>} :
    Contains(pos, upper(cell_text))

\* Lines 253-258: the text of the first cell after the name that names a position
RECURSIVE GenericPosition(_)
GenericPosition(texts) ==
  IF texts = <<>> THEN <<>>
  ELSE IF LooksLikePosition(texts[1]) THEN texts[1] ELSE GenericPosition(Tail(texts))

\* Line 242: <<"1"," ","i","f"," ","j","e","r","s","e","y","_","n","u","m"," ","e","l","s","e"," ","0">>, as an index from 1 (an int is true when not 0)
GenericNameIdx(jersey_num) ==
  IF jersey_num # None /\ jersey_num[1] # 0 THEN 2 ELSE 1

\* what the body read from a row: the cell texts, and the name and position it took
GenericSrc(texts, name, position) ==
  [path |-> "generic", cells |-> texts, jersey_text |-> IF texts = <<>> THEN <<>> ELSE texts[1],
   src_name |-> name, position |-> position]

\* Lines 245-273
GenericParts(texts, jersey_num, name_parts, position) ==
  IF Len(name_parts) < 2 THEN Outcome("skip", None, GenericSrc(texts, join(name_parts), <<>>))
  ELSE Outcome("entry",
               Some(Player(jersey_num, name_parts[1], LastName(name_parts), position,
                           None, None, None)),
               GenericSrc(texts, join(name_parts), position))
\* Lines 242-258
GenericNamed(texts, jersey_num, name_idx) ==
  GenericParts(texts, jersey_num, split(texts[name_idx]), GenericPosition(Drop(texts, name_idx)))
\* Lines 238-239: <<"j","e","r","s","e","y","_","n","u","m"," ","="," ","i","n","t","(","j","e","r","s","e","y",")">>; the ValueError leaves the loop
GenericInt(texts, n) ==
  IF n.raises THEN Outcome("error", None, GenericSrc(texts, <<>>, <<>>))
  ELSE GenericNamed(texts, Some(n.value), GenericNameIdx(Some(n.value)))
\* Lines 228-239
GenericCells(texts) ==
  IF Len(texts) < 2 \/ ~PlausibleName(join(texts))
  THEN Outcome("skip", None, GenericSrc(texts, <<>>, <<>>))
  ELSE IF texts[1] # <<>> /\ isdigit(texts[1]) THEN GenericInt(texts, int(texts[1]))
       ELSE GenericNamed(texts, None, GenericNameIdx(None))
\* Lines 227-273: the body of the loop for one row
GenericRow(row) == GenericCells(CellTexts(FindAllTag(row, {"td", "th"})))

\* Lines 222-226: the rows of every table, without each table's first row
RECURSIVE GenericRows(_)
TailOrEmpty(trs) == IF trs = <<>> THEN <<>> ELSE Tail(trs)
GenericRows(tables) ==
  IF tables = <<>> THEN <<>>
  ELSE TailOrEmpty(FindAllTag(tables[1], {"tr"})) \o GenericRows(Tail(tables))

\* The loop over the rows: each row's outcome, up to the first row that raises
\* (nothing in the loop catches, so the exception leaves the loop).
RECURSIVE GenericLoop(_)
GenericCons(outcome, rest) ==
  IF outcome.kind = "error" THEN <<outcome>> ELSE <<outcome>> \o GenericLoop(rest)
GenericLoop(rows) ==
  IF rows = <<>> THEN <<>> ELSE GenericCons(GenericRow(rows[1]), Tail(rows))

GenericOutcomes(soup) == GenericLoop(GenericRows(FindAllTag(soup, {"table"})))

HasError(outcomes) == \E k \in 1..Len(outcomes) : outcomes[k].kind = "error"

\* Lines 215-275: the try block
GenericBody(fetched, outcomes) ==
  IF ~fetched \/ HasError(outcomes) THEN Raised
  ELSE Returned(NonEmptyOrNone(RosterOf(outcomes)))

\* Lines 277-279: <<"e","x","c","e","p","t"," ","E","x","c","e","p","t","i","o","n">>
GenericCatch_Missing(body) == body
GenericCatch(body) == IF body.raised THEN Returned(None) ELSE body

GenericCall(fetched, outcomes) == GenericCatch(GenericBody(fetched, outcomes))
scrape_generic_roster(fetched, soup) == GenericCall(fetched, GenericOutcomes(soup))

(************************* scrape_virginia_custom **************************)
\* Lines 329-346: the fields of one card
VirginiaRecordOf(jersey_el, name_el, pos_el) ==
  [status |-> IF name_el = None THEN "skip" ELSE "ok", path |-> "card",
   jersey_text |-> TextOr(jersey_el, <<>>),
   src_name |-> clean_text(TextOr(name_el, <<>>)),
   jersey |-> None,
   name |-> StripLeadingNumber(clean_text(TextOr(name_el, <<>>))),
   position |-> clean_text(TextOr(pos_el, <<>>)),
   height |-> None, year |-> None, hometown |-> None]
VirginiaRecord(card) ==
  VirginiaRecordOf(First(FindAllClass(card, {<<"n","u","m","b","e","r">>, <<"j","e","r","s","e","y">>})),
                   OrElse(First(FindAllClass(card, {<<"n","a","m","e">>})),
                          OrElse(First(FindAllTag(card, {"h3"})), First(FindAllTag(card, {"h2"})))),
                   First(FindAllClass(card, {<<"p","o","s","i","t","i","o","n">>, <<"p","o","s">>})))
\* Lines 331-334 come before the name is looked for: a ValueError of int leaves
\* the body even for a card without a name
VirginiaJerseyOf(f, jersey_match) ==
  IF jersey_match = None THEN f
  ELSE IF int(jersey_match[1]).raises THEN [f EXCEPT !.status = "error"]
  ELSE IF f.status = "skip" THEN f
  ELSE [f EXCEPT !.jersey = Some(int(jersey_match[1]).value)]
VirginiaJersey(f) == VirginiaJerseyOf(f, FirstDigits(f.jersey_text))
VirginiaFields(card) == VirginiaJersey(VirginiaRecord(card))

\* Line 349: the deduplication key of a card
VirginiaKey(name, jersey) == name \o <<"_">> \o FormatJersey(jersey)

\* Lines 350-373
VirginiaKeyed(f, player_key, name_parts, seen_players) ==
  IF player_key \in seen_players
  THEN [outcome |-> Outcome("skip", None, f), seen |-> seen_players]
  ELSE [outcome |-> IF Len(name_parts) < 2 THEN Outcome("skip", None, f)
                    ELSE Outcome("entry",
                                 Some(Player(f.jersey, name_parts[1], LastName(name_parts),
                                             f.position, None, None, None)),
                                 f),
        seen |-> seen_players \cup {player_key}]

\* Lines 327-375: the body of the loop for a card with fields f.  An exception
\* raised in a card is caught in the card (lines 374-375).
VirginiaCard(f, seen_players) ==
  IF f.status = "error" THEN [outcome |-> Outcome("error", None, f), seen |-> seen_players]
  ELSE IF f.status = "skip" THEN [outcome |-> Outcome("skip", None, f), seen |-> seen_players]
  ELSE VirginiaKeyed(f, VirginiaKey(f.name, f.jersey), split(f.name), seen_players)

RECURSIVE VirginiaLoop(_, _)
VirginiaCons(r, rest) == <<r.outcome>> \o VirginiaLoop(rest, r.seen)
VirginiaLoop(cards, seen_players) ==
  IF cards = <<>> THEN <<>>
  ELSE VirginiaCons(VirginiaCard(VirginiaFields(cards[1]), seen_players), Tail(cards))

\* Lines 320-324: the cards of the document
VirginiaCardsOf(soup, cards) ==
  IF cards = <<>> THEN FindAllTagClass(soup, {"div"}, {<<"r","o","s","t","e","r","-","p","l","a","y","e","r">>}) ELSE cards
VirginiaCards(soup) ==
  VirginiaCardsOf(soup, FindAllTagClass(soup, {"li"}, {<<"r","o","s","t","e","r","-","c","a","r","d">>, <<"p","l","a","y","e","r","-","c","a","r","d">>}))

VirginiaOutcomes(soup) == VirginiaLoop(VirginiaCards(soup), {})

\* Lines 312-377: the try block
VirginiaBody(fetched, outcomes) ==
  IF ~fetched THEN Raised ELSE Returned(NonEmptyOrNone(RosterOf(outcomes)))

\* Lines 379-381: <<"e","x","c","e","p","t"," ","E","x","c","e","p","t","i","o","n">>
VirginiaCatch(body) == IF body.raised THEN Returned(None) ELSE body

VirginiaCall(fetched, outcomes) == VirginiaCatch(VirginiaBody(fetched, outcomes))
scrape_virginia_custom(fetched, soup) == VirginiaCall(fetched, VirginiaOutcomes(soup))

(****************************** scrape_roster *******************************)
\* Line 288: the site has a special-case handler
SiteRegistered(url) == Contains(<<"v","i","r","g","i","n","i","a">>, lower(url)) /\ Contains(<<"v","i","r","g","i","n","i","a","s","p","o","r","t","s">>, url)

\* Line 298: <<"i","f"," ","n","o","t"," ","r","o","s","t","e","r">>
SidearmFailed_Always(roster) == TRUE
SidearmFailed(roster) == ~Truthy(roster)

(********************************** main ***********************************)
\* Lines 391-417: the team list (three of its entries)
TEAMS ==
  << [name |-> "Washington Huskies", url |-> <<"h","t","t","p","s",":","/","/","g","o","h","u","s","k","i","e","s",".","c","o","m","/","s","p","o","r","t","s","/","m","e","n","s","-","s","o","c","c","e","r","/","r","o","s","t","e","r">>],
     [name |-> "Virginia Cavaliers", url |-> <<"h","t","t","p","s",":","/","/","v","i","r","g","i","n","i","a","s","p","o","r","t","s",".","c","o","m","/","s","p","o","r","t","s","/","m","e","n","s","-","s","o","c","c","e","r","/","r","o","s","t","e","r">>],
     [name |-> "West Virginia Mountaineers", url |-> <<"h","t","t","p","s",":","/","/","w","v","u","s","p","o","r","t","s",".","c","o","m","/","s","p","o","r","t","s","/","m","e","n","s","-","s","o","c","c","e","r","/","r","o","s","t","e","r">>] >>

\* Lines 431-435: all_rosters after the team's roster is stored
StoreRoster_OnlySuccess(rosters, name, roster) ==
  IF Truthy(roster)
  THEN [n \in DOMAIN rosters \cup {name} |-> IF n = name THEN roster[1] ELSE rosters[n]]
  ELSE rosters
StoreRoster(rosters, name, roster) ==
  [n \in DOMAIN rosters \cup {name} |->
     IF n = name THEN (IF Truthy(roster) THEN roster[1] ELSE <<>>) ELSE rosters[n]]

(******************************** the pages ********************************)
\* The number of candidate records (table rows, cards) of an enumerated page
MaxRecords == 2

tr(cells) == El("tr", <<>>, <<>>, cells)
td(t) == Leaf("td", <<>>, t)
th(t) == Leaf("th", <<>>, t)
HeaderRow == tr(<<th(<<"#">>), th(<<"F","u","l","l"," ","N","a","m","e">>), th(<<"P","o","s">>)>>)

\* Table rows a roster page may hold
RowPool ==
  { tr(<<td(<<"7">>), td(<<"A","l","e","x"," "," ","R","a","y">>), td(<<"M","i","d","f","i","e","l","d","e","r">>), td(<<"6","'","2","\"">>), td(<<"J","u","n","i","o","r">>), td(<<"R","o","m","e",","," ","I","t","a","l","y">>)>>),
    tr(<<td(<<"7">>), td(<<"A","l","e","x"," ","R","a","y">>), td(<<"M","F">>)>>),
    tr(<<td(<<>>), td(<<"2","3"," ","J","o","h","n"," ","S","m","i","t","h">>), td(<<"F","o","r","w","a","r","d">>)>>),
    tr(<<td(<<"2","3">>), td(<<"2","3"," ","J","o","h","n">>), td(<<"D">>)>>),
    tr(<<td(<<"#">>), td(<<"2","3"," ","4","5"," ","J","o","h","n">>)>>),
    tr(<<td(<<"9x4301">>), td(<<"B","o"," ","L","i">>), td(<<"G","K">>)>>),
    tr(<<td(<<"^2">>), td(<<"A","l","e","x"," ","R","a","y">>), td(<<"M">>)>>),
    tr(<<td(<<"0">>), td(<<"J","o","h","n"," ","S","m","i","t","h">>), td(<<"G","o","a","l","k","e","e","p","e","r">>)>>),
    tr(<<th(<<"5">>), td(<<"S","a","m"," ","L","e","e">>), td(<<"S","o",".">>), td(<<"M","i","d","f","i","e","l","d","e","r","/","D","e","f","e","n","d","e","r">>)>>),
    tr(<<td(<<"J","o","h","n"," ","S","m","i","t","h">>), td(<<"D","e","f","e","n","d","e","r">>)>>),
    tr(<<td(<<"1","2">>), td(<<" ">>), td(<<"S","t","r","i","k","e","r">>)>>) }

span(class, t) == Leaf("span", class, t)
\* Cards (the children of a card element) a roster page may hold
CardPool ==
  { <<span(<<"r","o","s","t","e","r","-","j","e","r","s","e","y","-","n","u","m","b","e","r">>, <<"7">>), span(<<"p","l","a","y","e","r","-","n","a","m","e">>, <<"A","l","e","x"," ","R","a","y">>), span(<<"p","o","s","i","t","i","o","n">>, <<"M","i","d","f","i","e","l","d","e","r">>)>>,
    <<span(<<"n","u","m","b","e","r">>, <<"N","o","."," ","7">>), Leaf("a", <<"N","a","m","e">>, <<"A","l","e","x"," ","R","a","y">>), span(<<"p","l","a","y","e","r","-","p","o","s">>, <<"M","F">>),
      span(<<"h","e","i","g","h","t">>, <<"5","-","1","1">>), span(<<"c","l","a","s","s","-","y","e","a","r">>, <<"S","r",".">>), span(<<"h","o","m","e","t","o","w","n">>, <<"L","y","o","n">>)>>,
    <<span(<<"n","a","m","e">>, <<"2","3"," ","J","o","h","n"," ","S","m","i","t","h">>), span(<<"p","o","s","i","t","i","o","n">>, <<"F","o","r","w","a","r","d">>)>>,
    <<Leaf("h3", <<>>, <<"S","a","m"," ","L","e","e">>), span(<<"p","o","s">>, <<"B","a","c","k">>)>>,
    <<span(<<"j","e","r","s","e","y">>, <<"9x4301">>), span(<<"n","a","m","e">>, <<"B","o"," ","L","i">>)>>,
    <<span(<<"n","u","m","b","e","r">>, <<"1","0">>), span(<<"n","a","m","e">>, <<"P","e","l","e">>)>> }

\* the sequences over a set S of length at most n
RECURSIVE SeqsUpTo(_, _)
SeqsUpTo(S, n) ==
  IF n = 0 THEN {<<>>}
  ELSE SeqsUpTo(S, n - 1) \cup {Append(q, e) : q \in SeqsUpTo(S, n - 1), e \in S}

TablePage(rows) == Soup(<<El("table", <<"s","i","d","e","a","r","m","-","r","o","s","t","e","r","-","t","a","b","l","e">>, <<>>, <<HeaderRow>> \o rows)>>)
PlainTablePage(rows) == Soup(<<El("table", <<>>, <<>>, <<HeaderRow>> \o rows)>>)
ListPage(cards) ==
  Soup(<<El("ul", <<>>, <<>>, [i \in 1..Len(cards) |-> El("li", <<"r","o","s","t","e","r","-","c","a","r","d">>, <<>>, cards[i])])>>)
DivPage(cards) ==
  Soup([i \in 1..Len(cards) |-> El("div", <<"s","i","d","e","a","r","m","-","r","o","s","t","e","r","-","p","l","a","y","e","r">>, <<>>, cards[i])])

\* A roster table that matches the pattern by its class, by its id, or by both
TableWith(class, id, rows) == El("table", class, id, <<HeaderRow>> \o rows)
TableMarks == {<<<<"r","o","s","t","e","r","-","t","a","b","l","e">>, <<>>>>, <<<<>>, <<"R","o","s","t","e","r">>>>, <<<<"r","o","s","t","e","r">>, <<"r","o","s","t","e","r">>>>}
TableBodies == {<<>>, <<tr(<<td(<<"7">>), td(<<"A","l","e","x"," ","R","a","y">>), td(<<"M","F">>)>>)>>}
\* Pages with one roster table: alone, beside a div whose class matches the
\* pattern, or inside such a div
ContainerPages ==
  {Soup(<<TableWith(m[1], m[2], rows)>>) : m \in TableMarks, rows \in TableBodies}
  \cup {Soup(<<El("div", <<"r","o","s","t","e","r","-","h","e","a","d","e","r">>, <<>>, <<>>), TableWith(m[1], m[2], rows)>>) :
          m \in TableMarks, rows \in TableBodies}
  \cup {Soup(<<El("div", <<"r","o","s","t","e","r","-","w","r","a","p">>, <<>>, <<TableWith(m[1], m[2], rows)>>)>>) :
          m \in TableMarks, rows \in TableBodies}

\* The pages the recognizers are applied to
RecPages ==
  {TablePage(rows) : rows \in SeqsUpTo(RowPool, MaxRecords)}
  \cup {ListPage(cards) : cards \in SeqsUpTo(CardPool, MaxRecords)}
  \cup {DivPage(cards) : cards \in SeqsUpTo(CardPool, MaxRecords)}
  \cup ContainerPages

\* The pages the team loop fetches
MainPages ==
  { Soup(<<>>),
    TablePage(<<tr(<<td(<<"7">>), td(<<"A","l","e","x"," ","R","a","y">>), td(<<"M","F">>)>>)>>),
    PlainTablePage(<<tr(<<td(<<"7">>), td(<<"A","l","e","x"," ","R","a","y">>), td(<<"M","F">>)>>)>>),
    PlainTablePage(<<tr(<<td(<<"7">>), td(<<"A","l","e","x"," ","R","a","y">>), td(<<"M","F">>)>>), tr(<<td(<<"^2">>), td(<<"A","l","e","x"," ","R","a","y">>), td(<<"M">>)>>)>>),
    ListPage(<<<<span(<<"n","u","m","b","e","r">>, <<"1","0">>), span(<<"n","a","m","e">>, <<"S","a","m"," ","L","e","e">>)>>>>),
    DivPage(<<<<span(<<"n","a","m","e">>, <<"2","3"," ","J","o","h","n"," ","S","m","i","t","h">>), span(<<"p","o","s","i","t","i","o","n">>, <<"F","o","r","w","a","r","d">>)>>>>) }

(********************************* the state *******************************)
Recognizers == {"virginia", "sidearm", "generic"}

VARIABLES
  pc,             \* where the program is: in main's loop, or in scrape_roster
  i,              \* main: the number of teams handled so far
  all_rosters,    \* main: team name -> the stored roster
  success_count,  \* main
  page,           \* the document at the URL being scraped
  roster,         \* scrape_roster: its local variable
  attempts,       \* history: the recognizers scrape_roster has called for this team
  returned,       \* history: what scrape_roster returned for each team handled
  rec             \* what each recognizer gave for the page, when applied on its own

vars == <<pc, i, all_rosters, success_count, page, roster, attempts, returned, rec>>

NotRun == [ran |-> FALSE, fetched |-> FALSE, result |-> None, outcomes |-> <<>>]
Attempt(r, fetched, result) == [recognizer |-> r, fetched |-> fetched, result |-> result]

url == TEAMS[i + 1].url

(**************************** the team loop (Spec) *************************)
Init ==
  /\ pc = "main"
  /\ i = 0
  /\ all_rosters = [n \in {} |-> <<>>]
  /\ success_count = 0
  /\ page = Soup(<<>>)
  /\ roster = None
  /\ attempts = <<>>
  /\ returned = <<>>
  /\ rec = [r \in Recognizers |-> NotRun]

\* Lines 428-429: the next team; scrape_roster is entered
MainLoop ==
  /\ pc = "main" /\ i < Len(TEAMS)
  /\ \E soup \in MainPages : page' = soup
  /\ pc' = "scrape_roster"
  /\ roster' = None
  /\ attempts' = <<>>
  /\ UNCHANGED <<i, all_rosters, success_count, returned, rec>>

\* Lines 291-292: <<"i","f"," ","r","o","s","t","e","r",":"," ","r","e","t","u","r","n"," ","r","o","s","t","e","r">>
VirginiaNext(r) == IF Truthy(r) THEN "return" ELSE "sidearm"
\* Lines 298-300: the generic scraper is tried when Sidearm gave nothing
SidearmNext(r) == IF SidearmFailed(r) THEN "generic" ELSE "return"
\* Lines 302-307
GenericNext(r) == "return"

\* A recognizer was called: if an exception left it, it leaves scrape_roster and
\* main too; else the roster is kept and the chain goes on, at NextPc(roster)
AfterCall(r, fetched, call, NextPc(_)) ==
  IF call.raised
  THEN pc' = "crashed" /\ UNCHANGED <<roster, attempts>>
  ELSE /\ attempts' = Append(attempts, Attempt(r, fetched, call.value))
       /\ roster' = call.value
       /\ pc' = NextPc(call.value)

\* Lines 288-292
VirginiaStep ==
  /\ pc = "scrape_roster"
  /\ IF SiteRegistered(url)
     THEN \E fetched \in BOOLEAN :
            AfterCall("virginia", fetched, scrape_virginia_custom(fetched, page), VirginiaNext)
     ELSE pc' = "sidearm" /\ UNCHANGED <<roster, attempts>>
  /\ UNCHANGED <<i, all_rosters, success_count, page, returned, rec>>

\* Lines 295, 298
SidearmStep ==
  /\ pc = "sidearm"
  /\ \E fetched \in BOOLEAN :
       AfterCall("sidearm", fetched, scrape_sidearm_roster(fetched, page), SidearmNext)
  /\ UNCHANGED <<i, all_rosters, success_count, page, returned, rec>>

\* Line 300
GenericStep ==
  /\ pc = "generic"
  /\ \E fetched \in BOOLEAN :
       AfterCall("generic", fetched, scrape_generic_roster(fetched, page), GenericNext)
  /\ UNCHANGED <<i, all_rosters, success_count, page, returned, rec>>

\* Lines 302-307, 429-438: scrape_roster returns and main stores the roster
MainStore ==
  /\ pc = "return"
  /\ all_rosters' = StoreRoster(all_rosters, TEAMS[i + 1].name, roster)
  /\ success_count' = IF Truthy(roster) THEN success_count + 1 ELSE success_count
  /\ returned' = Append(returned, roster)
  /\ i' = i + 1
  /\ pc' = "main"
  /\ UNCHANGED <<page, roster, attempts, rec>>

\* Lines 441-443: after the loop the rosters are saved
Save ==
  /\ pc = "main" /\ i = Len(TEAMS)
  /\ pc' = "saved"
  /\ UNCHANGED <<i, all_rosters, success_count, page, roster, attempts, returned, rec>>

Next ==
  \/ MainLoop
  \/ VirginiaStep
  \/ SidearmStep
  \/ GenericStep
  \/ MainStore
  \/ Save

Spec == Init /\ [][Next]_vars

(******************* the recognizers on their own (RecSpec) ****************)
RecInit ==
  /\ pc = "recognizers"
  /\ i = 0
  /\ all_rosters = [n \in {} |-> <<>>]
  /\ success_count = 0
  /\ page \in RecPages
  /\ roster = None
  /\ attempts = <<>>
  /\ returned = <<>>
  /\ rec = [r \in Recognizers |-> NotRun]

\* A recognizer was applied: what it returned, and the outcomes of its records
Ran(fetched, call, outcomes) ==
  [ran |-> TRUE, fetched |-> fetched, result |-> call.value,
   outcomes |-> IF fetched THEN outcomes ELSE <<>>]
RanSidearm(fetched, outcomes) == Ran(fetched, SidearmCall(fetched, outcomes), outcomes)
RanGeneric(fetched, outcomes) == Ran(fetched, GenericCall(fetched, outcomes), outcomes)
RanVirginia(fetched, outcomes) == Ran(fetched, VirginiaCall(fetched, outcomes), outcomes)

RunSidearm ==
  /\ ~rec["sidearm"].ran
  /\ rec' = [rec EXCEPT !["sidearm"] = RanSidearm(TRUE, SidearmOutcomes(page))]
  /\ UNCHANGED <<pc, i, all_rosters, success_count, page, roster, attempts, returned>>

RunGeneric ==
  /\ ~rec["generic"].ran
  /\ rec' = [rec EXCEPT !["generic"] = RanGeneric(TRUE, GenericOutcomes(page))]
  /\ UNCHANGED <<pc, i, all_rosters, success_count, page, roster, attempts, returned>>

RunVirginia ==
  /\ ~rec["virginia"].ran
  /\ rec' = [rec EXCEPT !["virginia"] = RanVirginia(TRUE, VirginiaOutcomes(page))]
  /\ UNCHANGED <<pc, i, all_rosters, success_count, page, roster, attempts, returned>>

RecNext == RunSidearm \/ RunGeneric \/ RunVirginia

RecSpec == RecInit /\ [][RecNext]_vars

(********************************* the claims ******************************)
InChain == pc \in {"scrape_roster", "sidearm", "generic", "return"}
Rank(r) == CASE r = "virginia" -> 1 [] r = "sidearm" -> 2 [] r = "generic" -> 3
LastAttempt == attempts[Len(attempts)]

\* C1: scrape_roster tries the recognizers in the order site-specific (only for
\* a registered site, and then first), Platform, generic; no recognizer is run
\* after one that gave at least one record; the generic one runs only right
\* after the Platform one gave none; and what is returned is what the last
\* recognizer run gave, the first to give a record if any did.
C1_DispatchOrder ==
  InChain =>
    /\ \A k \in 1..(Len(attempts) - 1) :
         /\ Rank(attempts[k].recognizer) < Rank(attempts[k + 1].recognizer)
         /\ ~Truthy(attempts[k].result)
    /\ \A k \in 1..Len(attempts) :
         /\ attempts[k].recognizer = "virginia" => SiteRegistered(url)
         /\ attempts[k].recognizer = "generic" =>
              k > 1 /\ attempts[k - 1].recognizer = "sidearm"
    /\ (SiteRegistered(url) /\ attempts # <<>>) => attempts[1].recognizer = "virginia"
    /\ (~SiteRegistered(url) /\ attempts # <<>>) => attempts[1].recognizer = "sidearm"
    /\ pc = "return" =>
         /\ attempts # <<>>
         /\ roster = LastAttempt.result
         /\ Truthy(roster) \/ LastAttempt.recognizer = "generic"

\* The site-specific recognizer gave nothing, the Platform one gave a roster,
\* and the generic one was not run.
C1_Witness ==
  /\ pc = "return" /\ Len(attempts) = 2 /\ Truthy(roster)
  /\ attempts[1].recognizer = "virginia" /\ attempts[2].recognizer = "sidearm"

\* C2: whatever the fetches and the pages, scrape_roster calls at most three
\* recognizers and no exception leaves it; a recognizer whose fetch failed, or
\* that failed on a row, gave no records, and the next recognizer was run; the
\* chain is never stuck before it returns.
C2_ChainTerminates ==
  /\ pc # "crashed"
  /\ Len(attempts) <= 3
  /\ InChain =>
       /\ ENABLED Next
       /\ \A k \in 1..Len(attempts) :
            /\ ~attempts[k].fetched => attempts[k].result = None
            /\ (attempts[k].recognizer = "generic" /\ HasError(GenericOutcomes(page)))
                 => attempts[k].result = None
            /\ (~Truthy(attempts[k].result) /\ attempts[k].recognizer # "generic")
                 => (k < Len(attempts) \/ pc \in {"sidearm", "generic"})

\* All three recognizers were run and every fetch failed: nothing is returned.
C2_Witness ==
  /\ pc = "return" /\ Len(attempts) = 3 /\ roster = None
  /\ \A k \in 1..3 : ~attempts[k].fetched

EntryKey(p) == <<p.firstName, p.lastName, p.jersey, p.position>>
NoDuplicates(ros) ==
  \A a, b \in 1..Len(ros) : a # b => EntryKey(ros[a]) # EntryKey(ros[b])

\* C3: no two entries of a roster of the Platform or the site-specific
\* recognizer share (firstName, lastName, jersey, position).
C3_NoDuplicateEntries ==
  \A r \in {"sidearm", "virginia"} :
    (rec[r].ran /\ rec[r].result # None) => NoDuplicates(rec[r].result[1])

\* the outcomes of recognizer r that are entries
EntriesOf(r) == {k \in 1..Len(rec[r].outcomes) : rec[r].outcomes[k].kind = "entry"}
PlayerAt(r, k) == rec[r].outcomes[k].player[1]
SrcAt(r, k) == rec[r].outcomes[k].src

\* C4: parse_position, given the primary code it produced, gives the same pair.
C4_ParsePositionIdempotent ==
  \A r \in Recognizers : \A k \in EntriesOf(r) :
    parse_position(PlayerAt(r, k).position)
      = <<PlayerAt(r, k).position, PlayerAt(r, k).subPosition>>

SubPositionOf(code) ==
  CASE code = <<"G","K">> -> <<"G","K">> [] code = <<"F","W","D">> -> <<"S","T">> [] code = <<"M","I","D">> -> <<"C","M">> [] code = <<"D","E","F">> -> <<"C","B">>
\* the code of the first keyword rule the upper-cased text u matches, MID if none
FirstRule(u) ==
  IF Contains(<<"G","O","A","L">>, u) \/ u = <<"G","K">> THEN <<"G","K">>
  ELSE IF Contains(<<"F","O","R","W","A","R","D">>, u) \/ u \in {<<"F">>, <<"F","W">>, <<"S","T">>, <<"S","T","R","I","K","E","R">>} THEN <<"F","W","D">>
  ELSE IF Contains(<<"M","I","D">>, u) \/ u \in {<<"M">>, <<"M","F">>} THEN <<"M","I","D">>
  ELSE IF Contains(<<"D","E","F">>, u) \/ u \in {<<"D">>, <<"D","F">>, <<"B","A","C","K">>} THEN <<"D","E","F">>
  ELSE <<"M","I","D">>
PositionOk(player, code) ==
  /\ player.position \in {<<"G","K">>, <<"F","W","D">>, <<"M","I","D">>, <<"D","E","F">>}
  /\ player.position = code
  /\ player.subPosition = SubPositionOf(player.position)

\* C5: every entry of every recognizer has a position among GK, FWD, MID, DEF,
\* the one of the first keyword rule (in the order GK, FWD, MID, DEF) its position
\* text matches, MID when it matches none, and the subPosition of that position.
C5_PositionClosed ==
  \A r \in Recognizers : \A k \in EntriesOf(r) :
    PositionOk(PlayerAt(r, k), FirstRule(upper(clean_text(SrcAt(r, k).position))))

\* An entry whose position text matches the MID and the DEF rule, and one whose
\* position text is empty.
C5_Witness ==
  \E r \in Recognizers : \E k, e \in EntriesOf(r) :
    /\ SrcAt(r, k).position = <<"M","i","d","f","i","e","l","d","e","r","/","D","e","f","e","n","d","e","r">> /\ PlayerAt(r, k).position = <<"M","I","D">>
    /\ SrcAt(r, e).position = <<>> /\ PlayerAt(r, e).position = <<"M","I","D">>

AllDecimal(tok) == \A c \in 1..Len(tok) : IsDecimal(tok[c])
\* the leading number tokens the recognizer may strip from the name of a record
MaxStripped(src) ==
  IF src.path = "generic" THEN 0
  ELSE IF src.path = "cells" /\ JerseyCellMatch(src.jersey_text) = None THEN 2
  ELSE 1
OneTokenAfterNumbers(toks, src) ==
  /\ Len(toks) >= 1 /\ Len(toks) <= 1 + MaxStripped(src)
  /\ \A c \in 1..(Len(toks) - 1) : AllDecimal(toks[c])

\* C6 as stated: firstName is never empty, and lastName is empty only if the
\* name text of the record had exactly one token.
C6_AsStated ==
  \A r \in Recognizers : \A k \in EntriesOf(r) :
    /\ PlayerAt(r, k).firstName # <<>>
    /\ split(SrcAt(r, k).src_name) # <<>>
    /\ PlayerAt(r, k).lastName = <<>> => Len(split(SrcAt(r, k).src_name)) = 1

\* C6, amended: firstName is never empty, no entry comes from a name text
\* without tokens, and lastName is empty only if the name text has exactly one
\* token after the leading number tokens the recognizer strips from it (one; two
\* on the Platform's cell path when the jersey cell holds no number; none in the
\* generic recognizer).
C6_NameSplit ==
  \A r \in Recognizers : \A k \in EntriesOf(r) :
    /\ PlayerAt(r, k).firstName # <<>>
    /\ split(SrcAt(r, k).src_name) # <<>>
    /\ PlayerAt(r, k).lastName = <<>> =>
         OneTokenAfterNumbers(split(SrcAt(r, k).src_name), SrcAt(r, k))

\* An entry with an empty lastName from a name text of one token, and one from
\* a name text of three tokens.
C6_Witness ==
  /\ \E r \in Recognizers : \E k \in EntriesOf(r) :
       PlayerAt(r, k).lastName = <<>> /\ Len(split(SrcAt(r, k).src_name)) = 1
  /\ \E r \in Recognizers : \E k \in EntriesOf(r) :
       PlayerAt(r, k).lastName = <<>> /\ Len(split(SrcAt(r, k).src_name)) = 3

\* C7: a record that fails is the only one dropped: each recognizer returns the
\* entries of all its other records.
C7_RecordScope ==
  \A r \in Recognizers :
    rec[r].ran => rec[r].result = NonEmptyOrNone(RosterOf(rec[r].outcomes))

\* the jersey field of a record holds no number
NoJerseyField(src) ==
  IF src.path = "cells" THEN JerseyCellMatch(src.jersey_text) = None
  ELSE FirstDigits(src.jersey_text) = None
JerseyFromName(player, m) ==
  /\ player.jersey = Some(int(m[1][1]).value)
  /\ player.firstName # m[1][1]

\* C8: an entry of the Platform or the site-specific recognizer whose name text
\* starts with a number followed by the name, and whose jersey field holds no
\* number, has that number as its jersey and not in its name.
C8_JerseyFromName ==
  \A r \in {"sidearm", "virginia"} : \A k \in EntriesOf(r) :
    (NameMatch(SrcAt(r, k).src_name) # None /\ NoJerseyField(SrcAt(r, k)))
      => JerseyFromName(PlayerAt(r, k), NameMatch(SrcAt(r, k).src_name))

\* C9: every team handled has exactly one entry in all_rosters, the roster
\* scrape_roster returned for it, or the empty list when it returned none; the
\* loop goes on after a team without a roster, and all teams are stored when
\* the rosters are saved.
C9_EveryTeamStored ==
  /\ pc # "crashed"
  /\ pc # "saved" => ENABLED Next
  /\ pc = "saved" => i = Len(TEAMS)
  /\ Len(returned) = i
  /\ DOMAIN all_rosters = {TEAMS[k].name : k \in 1..i}
  /\ \A k \in 1..i :
       all_rosters[TEAMS[k].name] = IF Truthy(returned[k]) THEN returned[k][1] ELSE <<>>

\* The first team has no roster, a later team has one, and the rosters are saved.
C9_Witness ==
  /\ pc = "saved"
  /\ all_rosters[TEAMS[1].name] = <<>> /\ returned[1] = None
  /\ all_rosters[TEAMS[2].name] # <<>>

IsNumber(t) == t # <<>> /\ \A c \in 1..Len(t) : InSeq(t[c], DIGITS)
NamedBy(player, name_parts) ==
  player.firstName = name_parts[1] /\ player.lastName = join(Tail(name_parts))
GenericRowOk(o, cells) ==
  IF IsNumber(cells[1])
  THEN Len(split(cells[2])) >= 2 =>
         /\ o.kind = "entry"
         /\ o.player[1].jersey = Some(int(cells[1]).value)
         /\ NamedBy(o.player[1], split(cells[2]))
  ELSE o.kind = "entry" =>
         /\ o.player[1].jersey = None
         /\ NamedBy(o.player[1], split(cells[1]))

\* C10: in the generic recognizer, a row of at least two cells that passes the
\* name filter and whose first cell is a number (0 too) gives an entry with that
\* jersey and the name of the second cell; any other such row that gives an entry
\* gives it without jersey and with the name of the first cell.
C10_GenericJerseyColumn ==
  \A k \in 1..Len(rec["generic"].outcomes) :
    (Len(SrcAt("generic", k).cells) >= 2 /\ PlausibleName(join(SrcAt("generic", k).cells)))
      => GenericRowOk(rec["generic"].outcomes[k], SrcAt("generic", k).cells)

\* the tables of the document whose class or id matches the roster pattern
MatchingTables(soup) ==
  LET Hit(e) == e.tag = "table" /\ (SearchI({<<"r","o","s","t","e","r">>}, e.class) \/ SearchI({<<"r","o","s","t","e","r">>}, e.id))
  IN  SelectSeq(Descendants(soup), Hit)
IsMatchingTable(container, tables) ==
  /\ container # None
  /\ \E k \in 1..Len(tables) : container[1] = tables[k]

\* C11: whenever the document holds a table whose class or id matches the roster
\* pattern, the container the Platform recognizer takes its rows from is such a
\* table, also when a div whose class matches the pattern is in the document.
C11_TableContainerFirst ==
  (rec["sidearm"].ran /\ rec["sidearm"].fetched /\ MatchingTables(page) # <<>>)
    => IsMatchingTable(SidearmContainer(page), MatchingTables(page))

=============================================================================
